---- MODULE Spec2Model ----
(***************************************************************************)
(* Model of the retrieval-augmented question-answering service:            *)
(*   services/rag.py        RAGService (chunker, embedder, ingestion,      *)
(*                          search, answer)                                *)
(*   api/routes/courses.py  the upload / ask / search / documents /        *)
(*                          delete operations and get_rag_service          *)
(*   api/routes/chat.py     the chat operation                             *)
(*                                                                         *)
(* Texts are sequences of one-character strings.  Positions are 0-based,   *)
(* as in the source; a TLA+ sequence index is the position plus one.       *)
(*                                                                         *)
(* Six specifications share the variables:                                 *)
(*   SpecChunk      one call of chunk_text, one loop iteration per step    *)
(*   SpecEmbed      one call of get_embeddings, one item per step          *)
(*   SpecConstruct  RAGService() run again and again against one Pinecone  *)
(*                  project, one call of the Pinecone client per step      *)
(*   SpecRequests   request coroutines on the event loop, up to the point  *)
(*                  where each has its RAGService                          *)
(*   SpecChat       the chat operation against a table of materials        *)
(*   Spec           the service: requests against the index and the store  *)
(***************************************************************************)
EXTENDS Integers, Sequences, FiniteSets, TLC

VARIABLES
    chunker,      \* one run of RAGService.chunk_text: its arguments and locals
    embedder,     \* one run of RAGService.get_embeddings: its argument and locals
    construction, \* RAGService() run against the Pinecone project: position, calls
    tasks,        \* the request coroutines the event loop holds, and the instances
                  \* of RAGService the process has constructed
    chats,        \* the rows of table chats (external)
    rag_service,  \* courses.py: the module global rag_service
    pinecone,     \* the entries held by the Pinecone index (external)
    materials,    \* the rows of table course_materials (external)
    uuids,        \* number of uuid4 values drawn so far
    uploads,      \* number of uploads handed to the ingestion pipeline so far
    pc,           \* position of the request in flight
    req,          \* the request in flight
    loc,          \* locals of RAGService.upload_document
    calls,        \* calls the request in flight has made, in order
    matches,      \* the matches of the last index.query
    result,       \* what the service method returned to the route
    resp          \* what the route answered

vars == <<chunker, embedder, construction, tasks, chats, rag_service, pinecone, materials,
          uuids, uploads, pc, req, loc, calls, matches, result, resp>>

serviceVars == <<tasks, chats, rag_service, pinecone, materials, uuids, uploads,
                 pc, req, loc, calls, matches, result, resp>>

\* ------------------------------------------------------------------ bounds

\* longest text given to chunk_text in SpecChunk
MaxLen == 6
\* largest chunk_size given to chunk_text in SpecChunk
MaxChunkSize == 5
\* longest list given to get_embeddings in SpecEmbed
MaxTexts == 3
\* uploads that reach the ingestion pipeline in one behaviour of Spec
MaxUploads == 2
\* constructions of the service in one behaviour of SpecConstruct
MaxConstructions == 2
\* rows of table course_materials at the start of a behaviour of SpecChat
MaxChatRows == 2
\* chat messages answered for existing users in one behaviour of SpecChat
MaxChats == 1
\* request coroutines alive at a time in one behaviour of SpecRequests
MaxTasks == 3
\* iterations of the loop of chunk_text followed in one behaviour of SpecChunk;
\* a loop whose start grows at every iteration runs at most MaxLen times
MaxIterations == 7

\* ------------------------------------------------------------------- text

Min(a, b) == IF a < b THEN a ELSE b

Max(a, b) == IF a > b THEN a ELSE b

MaxOf(S) == CHOOSE x \in S : \A y \in S : y <= x

\* the characters of the model's texts: a letter, the sentence terminator,
\* the space, and a whitespace character that is not a space
Chars == {"a", ".", " ", "\n"}

\* str.strip() removes whitespace, of which the model has two characters
IsSpace(c) == c \in {" ", "\n"}

\* s[i:j] for 0 <= i, clamped to the end of s
Slice(s, i, j) == SubSeq(s, i + 1, Min(j, Len(s)))

\* s.rfind(c, lo, hi): the highest position in [lo, hi) holding c, else -1
RFind(s, c, lo, hi) ==
    LET at == {i \in lo..(Min(hi, Len(s)) - 1) : s[i + 1] = c}
    IN  IF at = {} THEN -1 ELSE MaxOf(at)

\* the positions [lo, hi) of s[i:j] that s[i:j].strip() keeps
StripSpan(s, i, j) ==
    LET e    == Min(j, Len(s))
        keep == {p \in i..(e - 1) : ~IsSpace(s[p + 1])}
    IN  IF keep = {} THEN <<i, i>>
        ELSE <<CHOOSE p \in keep : \A q \in keep : p <= q, MaxOf(keep) + 1>>

\* s.strip()
Strip(s) == LET sp == StripSpan(s, 0, Len(s)) IN Slice(s, sp[1], sp[2])

\* all texts of length at most n
Texts(n) == UNION {[1..k -> Chars] : k \in 0..n}

\* ---------------------------------------------------------------- chunker

SliceEndSpaceFirst(text, start, chunk_size) ==
    LET end == start + chunk_size
    IN  IF end < Len(text)
        THEN LET space == RFind(text, " ", start, end)
             IN  IF space # -1 /\ space > start + chunk_size \div 2
                 THEN space
                 ELSE LET sentence_end == RFind(text, ".", start, end)
                      IN  IF sentence_end # -1
                               /\ sentence_end > start + chunk_size \div 2
                          THEN sentence_end + 1
                          ELSE end
        ELSE end

SliceEndAtAnyDot(text, start, chunk_size) ==
    LET end == start + chunk_size
    IN  IF end < Len(text)
        THEN LET sentence_end == RFind(text, ".", start, end)
             IN  IF sentence_end # -1
                 THEN sentence_end + 1
                 ELSE LET space == RFind(text, " ", start, end)
                      IN  IF space # -1 /\ space > start + chunk_size \div 2
                          THEN space
                          ELSE end
        ELSE end

\* rag.py 145-157: where the slice that starts at start ends
SliceEnd(text, start, chunk_size) ==
    LET end == start + chunk_size
    IN  IF end < Len(text)
        THEN LET sentence_end == RFind(text, ".", start, end)
             IN  IF sentence_end # -1 /\ sentence_end > start + chunk_size \div 2
                 THEN sentence_end + 1
                 ELSE LET space == RFind(text, " ", start, end)
                      IN  IF space # -1 /\ space > start + chunk_size \div 2
                          THEN space
                          ELSE end
        ELSE end

NextStartSkipsOne(end, overlap) == end - overlap + 1

\* rag.py 163: where the next slice starts
NextStart(end, overlap) == end - overlap

\* rag.py 160: only non-empty chunks are added
KeepChunk(chunk) == chunk # << >>

\* rag.py 141-168: the loop of chunk_text from position start on
RECURSIVE ChunkLoop(_, _, _, _, _)
ChunkLoop(text, chunk_size, overlap, start, chunks) ==
    IF start < Len(text)
    THEN LET end   == SliceEnd(text, start, chunk_size)
             chunk == Strip(Slice(text, start, end))
         IN  ChunkLoop(text, chunk_size, overlap, NextStart(end, overlap),
                       IF KeepChunk(chunk) THEN Append(chunks, chunk) ELSE chunks)
    ELSE chunks

\* rag.py 136-168: chunk_text
chunk_text(text, chunk_size, overlap) ==
    IF Len(text) <= chunk_size THEN <<text>>
    ELSE ChunkLoop(text, chunk_size, overlap, 0, << >>)

ChunkerIdle ==
    [pc |-> "idle", text |-> << >>, chunk_size |-> 0, overlap |-> 0,
     start |-> 0, chunks |-> << >>, slices |-> << >>]

\* a call chunk_text(text, chunk_size, overlap) with 0 <= overlap <= chunk_size // 2
ChunkInit ==
    \E text \in Texts(MaxLen), chunk_size \in 0..MaxChunkSize :
      \E overlap \in 0..(chunk_size \div 2) :
        chunker = [pc |-> "call", text |-> text, chunk_size |-> chunk_size,
                   overlap |-> overlap, start |-> 0, chunks |-> << >>,
                   slices |-> << >>]

\* rag.py 138-142: the short text is returned as it is, else the loop starts
ChunkCall ==
    /\ chunker.pc = "call"
    /\ chunker' =
         IF Len(chunker.text) <= chunker.chunk_size
         THEN [chunker EXCEPT !.pc = "done", !.chunks = <<chunker.text>>]
         ELSE [chunker EXCEPT !.pc = "loop"]
    /\ UNCHANGED <<embedder, construction, serviceVars>>

\* rag.py 144-166: one iteration; slices records [start, end) of every slice cut
ChunkIter ==
    /\ chunker.pc = "loop"
    /\ chunker.start < Len(chunker.text)
    /\ Len(chunker.slices) < MaxIterations
    /\ LET end   == SliceEnd(chunker.text, chunker.start, chunker.chunk_size)
           chunk == Strip(Slice(chunker.text, chunker.start, end))
       IN  chunker' =
             [chunker EXCEPT
                !.chunks = IF KeepChunk(chunk) THEN Append(@, chunk) ELSE @,
                !.slices = Append(@, [start |-> chunker.start, end |-> end,
                                      kept |-> KeepChunk(chunk)]),
                !.start  = NextStart(end, chunker.overlap)]
    /\ UNCHANGED <<embedder, construction, serviceVars>>

\* rag.py 144, 165-168: the loop ends and the chunks are returned
ChunkReturn ==
    /\ chunker.pc = "loop"
    /\ chunker.start >= Len(chunker.text)
    /\ chunker' = [chunker EXCEPT !.pc = "done"]
    /\ UNCHANGED <<embedder, construction, serviceVars>>

ChunkNext == ChunkCall \/ ChunkIter \/ ChunkReturn

\* ------------------------------------------------- claims on the chunker

ChunkDone == chunker.pc = "done"

LongText == Len(chunker.text) > chunker.chunk_size

\* the slices whose trimmed text was added to the chunks, in order
KeptSlices == SelectSeq(chunker.slices, LAMBDA sl : sl.kept)

\* the positions [lo, hi) of the text that the chunk of slice sl holds
ChunkSpan(sl) == StripSpan(chunker.text, sl.start, sl.end)

\* position p of the text lies inside a returned chunk
InSomeChunk(p) ==
    \E i \in 1..Len(KeptSlices) :
        ChunkSpan(KeptSlices[i])[1] <= p /\ p < ChunkSpan(KeptSlices[i])[2]

\* the pieces [lo, hi) joined in order, each without what the pieces before
\* it already gave (its novel span); cursor is the end of what was joined
RECURSIVE JoinNovel(_, _, _, _)
JoinNovel(text, pieces, i, cursor) ==
    IF i > Len(pieces) THEN << >>
    ELSE LET lo == pieces[i][1]
             hi == pieces[i][2]
         IN  Slice(text, Max(lo, cursor), hi)
               \o JoinNovel(text, pieces, i + 1, Max(hi, cursor))

\* every returned chunk is the trimmed text of its slice
ChunksAreTrimmedSlices ==
    /\ Len(chunker.chunks) = Len(KeptSlices)
    /\ \A i \in 1..Len(KeptSlices) :
         chunker.chunks[i] =
           Slice(chunker.text, ChunkSpan(KeptSlices[i])[1], ChunkSpan(KeptSlices[i])[2])

\* C2 (as claimed): a text no longer than chunk_size comes back as exactly one
\* chunk, equal to the text trimmed of leading and trailing whitespace.
C2_ShortTextIsOneTrimmedChunk ==
    (ChunkDone /\ ~LongText) => chunker.chunks = <<Strip(chunker.text)>>

\* C3 (as claimed): for a text longer than chunk_size every character position
\* lies inside a returned chunk, so the novel spans of the chunks joined in
\* order are the text.
C3_EveryPositionInAChunk ==
    (ChunkDone /\ LongText) =>
        /\ \A p \in 0..(Len(chunker.text) - 1) : InSomeChunk(p)
        /\ JoinNovel(chunker.text,
                     [i \in 1..Len(KeptSlices) |-> ChunkSpan(KeptSlices[i])],
                     1, 0) = chunker.text

\* C3 (amended): for a text longer than chunk_size every non-whitespace
\* character position lies inside a returned chunk, every returned chunk is
\* its slice trimmed, and the novel spans of the untrimmed slices joined in
\* order are the text.
C3_NonSpaceCoveredSlicesJoin ==
    (ChunkDone /\ LongText) =>
        /\ \A p \in 0..(Len(chunker.text) - 1) :
             ~IsSpace(chunker.text[p + 1]) => InSomeChunk(p)
        /\ ChunksAreTrimmedSlices
        /\ JoinNovel(chunker.text,
                     [i \in 1..Len(chunker.slices) |->
                        <<chunker.slices[i].start, chunker.slices[i].end>>],
                     1, 0) = chunker.text

\* a long text was chunked into several chunks and trimming dropped whitespace
\* that no chunk holds
C3_Witness ==
    /\ ChunkDone /\ LongText
    /\ Len(chunker.chunks) >= 2
    /\ \E p \in 0..(Len(chunker.text) - 1) : ~InSomeChunk(p)

\* C4 (as claimed): for every input text, the empty and the whitespace-only
\* text included, no returned chunk is empty after trimming.
C4_NoChunkEmptyAfterTrim ==
    ChunkDone => \A i \in 1..Len(chunker.chunks) : Strip(chunker.chunks[i]) # << >>

\* the loop of chunk_text has run one more iteration
Iteration ==
    /\ chunker.pc = "loop" /\ chunker'.pc = "loop"
    /\ Len(chunker'.slices) = Len(chunker.slices) + 1

\* the cut described for the slice that starts at start and whose window
\* [start, start + chunk_size) ends before the end of the text
DescribedCut(start) ==
    LET mid    == start + chunker.chunk_size \div 2
        window == start..(start + chunker.chunk_size - 1)
        dots   == {p \in window : chunker.text[p + 1] = "."}
        spaces == {p \in window : p > mid /\ chunker.text[p + 1] = " "}
    IN  IF dots # {} /\ MaxOf(dots) > mid THEN MaxOf(dots) + 1
        ELSE IF spaces # {} THEN MaxOf(spaces)
        ELSE start + chunker.chunk_size

\* C25: for a text longer than chunk_size (chunk_size at least 1), every
\* returned chunk has at most chunk_size characters, and every slice cut before
\* the end of the text is longer than chunk_size // 2 and is cut just after the
\* last '.' of its window if that '.' lies past start + chunk_size // 2,
\* otherwise at the last space past that midpoint, otherwise at
\* start + chunk_size.
C25_CutAtSentenceThenWordBoundary ==
    (LongText /\ chunker.chunk_size >= 1) =>
        /\ \A i \in 1..Len(chunker.chunks) :
             Len(chunker.chunks[i]) <= chunker.chunk_size
        /\ \A i \in 1..Len(chunker.slices) :
             /\ chunker.slices[i].end - chunker.slices[i].start <= chunker.chunk_size
             /\ chunker.slices[i].end < Len(chunker.text) =>
                  /\ chunker.slices[i].end - chunker.slices[i].start
                        > chunker.chunk_size \div 2
                  /\ chunker.slices[i].end = DescribedCut(chunker.slices[i].start)

\* a long text was chunked with a slice cut before the end of the text just
\* after a '.', although a space past the midpoint precedes that '.'
C25_Witness ==
    /\ ChunkDone /\ LongText
    /\ \E i \in 1..Len(chunker.slices) :
         /\ chunker.slices[i].end < Len(chunker.text)
         /\ chunker.slices[i].end - 2
               > chunker.slices[i].start + chunker.chunk_size \div 2
         /\ chunker.text[chunker.slices[i].end] = "."
         /\ chunker.text[chunker.slices[i].end - 1] = " "

\* C26 (as claimed): whenever 0 <= overlap <= chunk_size // 2, the scan
\* position start grows at every iteration of the loop of chunk_text, so the
\* loop ends.
C26_StartGrowsAtEveryIteration ==
    [][Iteration => chunker'.start > chunker.start]_vars

\* C26 (amended): whenever chunk_size >= 1 and 0 <= overlap <= chunk_size // 2,
\* start grows at every iteration, and the loop has ended after at most
\* len(text) iterations.
C26_StartGrowsForPositiveChunkSize ==
    [][(Iteration /\ chunker.chunk_size >= 1) =>
          /\ chunker'.start > chunker.start
          /\ Len(chunker'.slices) <= Len(chunker.text)]_vars

\* a long text was chunked in at least three iterations with the largest
\* overlap its chunk_size admits, and the loop has ended
C26_Witness ==
    /\ ChunkDone /\ LongText
    /\ chunker.chunk_size >= 2
    /\ chunker.overlap = chunker.chunk_size \div 2
    /\ Len(chunker.slices) >= 3
    /\ chunker.start >= Len(chunker.text)

\* C27 (as claimed): for a text longer than chunk_size, the slice of each chunk
\* returned after the first holds a character position beyond the end of the
\* slice of the chunk returned before it: no returned chunk, the last
\* included, is a slice wholly contained in its predecessor.
C27_EveryChunkGoesBeyondItsPredecessor ==
    (ChunkDone /\ LongText /\ chunker.chunk_size >= 1) =>
        \A i \in 2..Len(KeptSlices) :
            Min(KeptSlices[i].end, Len(chunker.text))
                > Min(KeptSlices[i - 1].end, Len(chunker.text))

\* --------------------------------------------------------------- embedder

\* rag.py 95, 186: the dimension of the index and of the fallback vector
EmbeddingDim == 768

\* rag.py 186: [0.0] * 768
ZeroVector == [dim |-> EmbeddingDim, zero |-> TRUE, of |-> << >>]

\* rag.py 177-182: result['embedding'] of models/embedding-001 for a text, a
\* vector of the model's 768 dimensions that stands for that text
ServiceVector(text) == [dim |-> EmbeddingDim, zero |-> FALSE, of |-> text]

OnEmbedFailureSkipsItem(embeddings) == embeddings

\* rag.py 183-186: a failed item gets the zero vector
OnEmbedFailure(embeddings) == Append(embeddings, ZeroVector)

\* rag.py 174-186: one iteration; raises tells whether genai.embed_content
\* (or reading its result) raises for this text
EmbedItem(embeddings, text, raises) ==
    IF raises THEN OnEmbedFailure(embeddings)
    ELSE Append(embeddings, ServiceVector(text))

\* rag.py 170-188: get_embeddings; fails[i] tells whether item i raises
RECURSIVE EmbedLoop(_, _, _, _)
EmbedLoop(texts, fails, i, embeddings) ==
    IF i > Len(texts) THEN embeddings
    ELSE EmbedLoop(texts, fails, i + 1, EmbedItem(embeddings, texts[i], fails[i]))

get_embeddings(texts, fails) == EmbedLoop(texts, fails, 1, << >>)

EmbedderIdle ==
    [pc |-> "idle", texts |-> << >>, fails |-> << >>, i |-> 1, embeddings |-> << >>]

\* the texts SpecEmbed embeds
EmbedTexts == {<<"a">>, <<"a", ".">>}

\* a call get_embeddings(texts) and, per item, whether the service fails on it
EmbedInit ==
    \E n \in 0..MaxTexts :
      \E texts \in [1..n -> EmbedTexts], fails \in [1..n -> BOOLEAN] :
        embedder = [pc |-> "loop", texts |-> texts, fails |-> fails, i |-> 1,
                    embeddings |-> << >>]

\* rag.py 174-186: the loop body for item i
EmbedStep ==
    /\ embedder.pc = "loop"
    /\ embedder.i <= Len(embedder.texts)
    /\ embedder' =
         [embedder EXCEPT
            !.embeddings = EmbedItem(@, embedder.texts[embedder.i],
                                     embedder.fails[embedder.i]),
            !.i = @ + 1]
    /\ UNCHANGED <<chunker, construction, serviceVars>>

\* rag.py 188: the loop is over and the list is returned
EmbedReturn ==
    /\ embedder.pc = "loop"
    /\ embedder.i > Len(embedder.texts)
    /\ embedder' = [embedder EXCEPT !.pc = "done"]
    /\ UNCHANGED <<chunker, construction, serviceVars>>

EmbedNext == EmbedStep \/ EmbedReturn

\* ------------------------------------------------ claims on the embedder

\* C5: get_embeddings returns one vector per input text, in input order, each
\* of dimension 768: the zero vector exactly where the embedding call failed
\* and the service's vector of that text elsewhere; the empty list gives the
\* empty list.
C5_OneVectorPerTextZeroWhereFailed ==
    embedder.pc = "done" =>
        /\ Len(embedder.embeddings) = Len(embedder.texts)
        /\ \A i \in 1..Len(embedder.texts) :
             /\ embedder.embeddings[i].dim = 768
             /\ embedder.embeddings[i].zero = embedder.fails[i]
             /\ ~embedder.fails[i] =>
                  embedder.embeddings[i] = ServiceVector(embedder.texts[i])

\* a batch in which an item failed and a later item was still embedded
C5_Witness ==
    /\ embedder.pc = "done"
    /\ \E i, j \in 1..Len(embedder.texts) :
         /\ i < j /\ embedder.fails[i] /\ ~embedder.fails[j]
         /\ embedder.embeddings[i] = ZeroVector
         /\ embedder.embeddings[j] = ServiceVector(embedder.texts[j])

\* ---------------------------------------------------- the service: data

\* the authenticated user ids (current_user_id)
Users == {1, 2}

\* self.index is None
None == "None"

\* courses.py 61: 10 * 1024 * 1024 bytes
MaxUploadBytes == 10 * 1024 * 1024

\* rag.py 136: chunk_size = 1000 of chunk_text, scaled 1000 -> 5 so that a
\* document of a few characters has several chunks
DefaultChunkSize == 5

\* rag.py 136: overlap = 200 of chunk_text, scaled 200 -> 1
DefaultOverlap == 1

\* rag.py 244: batch_size = 100, scaled 100 -> 2 so that a document of three
\* chunks has two batches
batch_size == 2

\* rag.py 367: the 200 characters of a source preview, scaled 200 -> 3
PreviewLen == 3

\* rag.py 325, 287: top_k = 3 of search_documents, as answer_question calls it
DefaultTopK == 3

\* courses.py 175: the cap 10 of min(top_k, 10), scaled 10 -> 4 so that an
\* owner of two documents has more entries than the cap
MaxTopK == 4

\* str.lower() on the characters the file names of the model use
Lower(c) ==
    CASE c = "P" -> "p" [] c = "D" -> "d" [] c = "F" -> "f" [] OTHER -> c

\* s.lower()
LowerStr(s) == [i \in 1..Len(s) |-> Lower(s[i])]

\* s.endswith(suffix)
EndsWith(s, suffix) ==
    /\ Len(s) >= Len(suffix)
    /\ SubSeq(s, Len(s) - Len(suffix) + 1, Len(s)) = suffix

DotPdf == <<".", "p", "d", "f">>

\* what PyPDF2 reads from the bytes of a file: "corrupt" when PdfReader
\* raises, else the extract_text() of each page in document order
PdfLong  == << <<"a", "a", ".", " ">>, <<"a", "a", "a", "a">> >>
PdfShort == << <<" ", "a", ".">> >>
PdfBlank == << << >>, <<" ", "\n">> >>
PdfCorrupt == "corrupt"

\* the uploaded files: filename, len(file_content), and what the bytes hold
File(filename, size, pdf) == [filename |-> filename, size |-> size, pdf |-> pdf]

NameA    == <<"a", ".", "p", "d", "f">>
NameB    == <<"b", ".", "P", "D", "F">>
NameTxt  == <<"a", ".", "t", "x", "t">>
NamePdfX == <<"p", "d", "f", ".", "a">>
NameBare == <<"p", "d", "f">>

\* files the upload operation accepts
ValidFiles ==
    { File(NameA, 1, PdfLong), File(NameB, MaxUploadBytes, PdfShort),
      File(NameA, MaxUploadBytes - 1, PdfCorrupt), File(NameB, 1, PdfBlank) }

\* files the upload operation rejects: a wrong name, no bytes, too many bytes
InvalidFiles ==
    { File(NameTxt, 1, PdfShort), File(NamePdfX, 1, PdfShort),
      File(NameBare, 1, PdfShort), File(NameA, 0, PdfShort),
      File(NameB, MaxUploadBytes + 1, PdfLong),
      File(NameTxt, MaxUploadBytes + 1, PdfLong) }

Files == ValidFiles \cup InvalidFiles

\* ------------------------------------------------ the service: extraction

\* rag.py 122-127: the text of the pages that have text, each followed by "\n"
RECURSIVE PagesText(_, _)
PagesText(pages, i) ==
    IF i > Len(pages) THEN << >>
    ELSE (IF pages[i] # << >> THEN pages[i] \o <<"\n">> ELSE << >>)
           \o PagesText(pages, i + 1)

\* rag.py 118-134: extract_text_from_pdf; it raises for a file PyPDF2 cannot
\* read and for one without readable text
extract_text_from_pdf(pdf) ==
    IF pdf = PdfCorrupt THEN [raised |-> TRUE, text |-> << >>]
    ELSE LET text == PagesText(pdf, 1)
         IN  IF Strip(text) = << >> THEN [raised |-> TRUE, text |-> << >>]
             ELSE [raised |-> FALSE, text |-> Strip(text)]

\* -------------------------------------------------- the service: the index

\* rag.py 236: the metadata user_id of an index entry
EntryOwner(user_id) == user_id

BuildVectorsStableIds(chunks, embeddings, filename, user_id, drawn) ==
    [i \in 1..Min(Len(chunks), Len(embeddings)) |->
        [id       |-> <<user_id, i>>,
         values   |-> embeddings[i],
         metadata |-> [text |-> chunks[i], filename |-> filename,
                       user_id |-> user_id, chunk_index |-> i - 1],
         by       |-> user_id]]

\* rag.py 225-240: the index entries of a document; ids are "doc_<user_id>_<uuid4>",
\* the k-th uuid4 drawn by the process being modelled as the number k.
\* Field by is not in the source: it records the authenticated user of
\* the request that built the entry.  The upload_date of the metadata is left out.
BuildVectors(chunks, embeddings, filename, user_id, drawn) ==
    [i \in 1..Min(Len(chunks), Len(embeddings)) |->
        [id       |-> <<user_id, drawn + i>>,
         values   |-> embeddings[i],
         metadata |-> [text |-> chunks[i], filename |-> filename,
                       user_id |-> EntryOwner(user_id), chunk_index |-> i - 1],
         by       |-> user_id]]

\* index.upsert(vectors=batch): entries are inserted or replaced by id
Upsert(entries, batch) ==
    {e \in entries : \A k \in 1..Len(batch) : batch[k].id # e.id}
        \cup {batch[k] : k \in 1..Len(batch)}

SearchFilterMatchesAll(user_id) == [field |-> "user_id", any |-> TRUE, eq |-> user_id]

\* rag.py 300: filter={"user_id": {"$eq": user_id}}
SearchFilter(user_id) == [field |-> "user_id", any |-> FALSE, eq |-> user_id]

\* cosine similarity of a query vector and an entry's vector, in percent:
\* the same text gives the same vector; the zero vector is similar to nothing
Score(vector, values) ==
    IF vector.zero \/ values.zero THEN 0
    ELSE IF vector.of = values.of THEN 100 ELSE 50

\* entry e ranks before entry f: higher score, equal scores in order of insertion
RanksBefore(vector, e, f) ==
    \/ Score(vector, e.values) > Score(vector, f.values)
    \/ /\ Score(vector, e.values) = Score(vector, f.values)
       /\ e.id[2] < f.id[2]

\* the entries of set S in rank order
RECURSIVE Ranked(_, _)
Ranked(vector, S) ==
    IF S = {} THEN << >>
    ELSE LET best == CHOOSE e \in S : \A f \in S \ {e} : RanksBefore(vector, e, f)
         IN  <<best>> \o Ranked(vector, S \ {best})

\* search_results['matches']: the first top_k of the ranked entries, each with
\* its score and, as include_metadata=True asks, its metadata
TopMatches(ranked, vector, top_k) ==
    [i \in 1..Min(top_k, Len(ranked)) |->
        [id |-> ranked[i].id, score |-> Score(vector, ranked[i].values),
         metadata |-> ranked[i].metadata, by |-> ranked[i].by]]

\* index.query(vector, filter, top_k, include_metadata=True): the top_k entries
\* that satisfy the metadata filter, by descending score
IndexQuery(entries, vector, filter, top_k) ==
    TopMatches(Ranked(vector,
                      {e \in entries :
                          filter.any \/ e.metadata[filter.field] = filter.eq}),
               vector, top_k)

\* ------------------------------------------- the service: construction

\* the locals of upload_document before it runs; rows_before is not in the
\* source: it records how many rows the table held when the method started
NoLoc ==
    [text_content |-> << >>, chunks |-> << >>, vectors |-> << >>, i |-> 0,
     rows_before |-> 0]

NoReq == [op |-> "none"]

\* rag.py 24-47: RAGService.__init__; connected tells whether
\* self.pc.Index(self.index_name) returned a handle, else self.index stays None
RAGService(connected) ==
    [constructed |-> TRUE, index |-> IF connected THEN "handle" ELSE None]

\* courses.py 13: rag_service = None
NoService == [constructed |-> FALSE, index |-> None]

\* no service method has returned to the request in flight
NoResult == [none |-> TRUE]

\* the request in flight has not been answered
NoResp == [status |-> 0]

\* whether pc.Index connects, for a request that constructs the service
ConnectOutcomes == IF rag_service.constructed THEN {TRUE} ELSE BOOLEAN

MustConstructAlways(service) == TRUE

MustConstructWhenNoIndex(service) == ~service.constructed \/ service.index = None

\* courses.py 18: rag_service is None
MustConstruct(service) == ~service.constructed

\* courses.py 15-20: get_rag_service, which constructs the service once
get_rag_service(connected) ==
    IF MustConstruct(rag_service) THEN RAGService(connected) ELSE rag_service

\* ------------------------------------ the service: requests in flight

\* the request coroutines the event loop can hold at a time
TaskIds == 1..MaxTasks

\* no request has arrived at coroutine slot t
NoTask == [op |-> "none", pc |-> "none", before |-> 0, rag |-> 0, built |-> FALSE]

\* no request has arrived and no RAGService has been constructed: constructed
\* counts the calls of RAGService() in this process, instance is the number of
\* the instance the global rag_service holds, 0 for None
TasksIdle == [constructed |-> 0, instance |-> 0, at |-> [t \in TaskIds |-> NoTask]]

\* the operations of courses.py that call get_rag_service
ServiceOps == {"upload", "ask", "search", "documents"}

\* courses.py 74, 111, 137, 171 with 15-20: coroutine t calls
\* get_rag_service() and keeps what it returns; connected tells whether
\* pc.Index would connect were the service constructed by this call.  The
\* call and the constructor hold no await, so no other coroutine runs between
\* the test of the global and its assignment.  rag is the number of the
\* instance the coroutine got, built whether this call constructed it.
TaskGetsService(t, connected) ==
    /\ rag_service' = get_rag_service(connected)
    /\ tasks' =
         [tasks EXCEPT
            !.constructed = IF MustConstruct(rag_service) THEN @ + 1 ELSE @,
            !.instance    = IF MustConstruct(rag_service)
                            THEN tasks.constructed + 1 ELSE @,
            !.at[t] = [@ EXCEPT
                         !.pc    = "served",
                         !.built = MustConstruct(rag_service),
                         !.rag   = IF MustConstruct(rag_service)
                                   THEN tasks.constructed + 1
                                   ELSE tasks.instance]]

\* the coroutine answers 400 before it has called get_rag_service
TaskRejects(t) ==
    /\ tasks' = [tasks EXCEPT !.at[t] = [@ EXCEPT !.pc = "rejected"]]
    /\ UNCHANGED rag_service

\* a request for one of the operations arrives: the event loop holds its
\* coroutine, which has not run yet
TaskArrives ==
    /\ \E t \in TaskIds, op \in ServiceOps :
         /\ tasks.at[t].pc = "none"
         /\ tasks' = [tasks EXCEPT !.at[t] = [NoTask EXCEPT !.op = op, !.pc = "pending"]]
    /\ UNCHANGED <<chunker, embedder, construction, chats, rag_service, pinecone,
                   materials, uuids, uploads, pc, req, loc, calls, matches, result,
                   resp>>

\* the event loop runs the handler of a pending request up to its first
\* await or, having none, up to the service it gets:
\*   courses.py 52-60   upload checks the file name and awaits file.read();
\*                      before is the instance the global held by then
\*   courses.py 104-111 ask checks the question and calls get_rag_service
\*   courses.py 164-171 search checks the query and calls get_rag_service
\*   courses.py 136-137 documents calls get_rag_service
\* The service methods the handlers go on with (Spec has them) hold no await
\* and do not assign the global.
TaskStarts ==
    /\ \E t \in TaskIds, valid \in BOOLEAN, connected \in BOOLEAN :
         /\ tasks.at[t].pc = "pending"
         /\ IF tasks.at[t].op = "upload"
            THEN IF valid
                 THEN /\ tasks' = [tasks EXCEPT
                                     !.at[t] = [@ EXCEPT !.pc = "reading",
                                                         !.before = tasks.instance]]
                      /\ UNCHANGED rag_service
                 ELSE TaskRejects(t)
            ELSE IF valid \/ tasks.at[t].op = "documents"
                 THEN TaskGetsService(t, connected)
                 ELSE TaskRejects(t)
    /\ UNCHANGED <<chunker, embedder, construction, chats, pinecone, materials, uuids,
                   uploads, pc, req, loc, calls, matches, result, resp>>

\* courses.py 60-74: file.read() has returned to an upload, which checks
\* the size of the file and calls get_rag_service
TaskResumes ==
    /\ \E t \in TaskIds, valid \in BOOLEAN, connected \in BOOLEAN :
         /\ tasks.at[t].pc = "reading"
         /\ IF valid THEN TaskGetsService(t, connected) ELSE TaskRejects(t)
    /\ UNCHANGED <<chunker, embedder, construction, chats, pinecone, materials, uuids,
                   uploads, pc, req, loc, calls, matches, result, resp>>

TasksNext == TaskArrives \/ TaskStarts \/ TaskResumes

\* ------------------------------- the service: construction, step by step

\* rag.py 29: self.index_name, the default of PINECONE_INDEX_NAME
index_name == "lms-chatbot-index"

\* rag.py 84-88: the cloud providers and regions tried, in this order
specs_to_try ==
    << [cloud |-> "aws", region |-> "us-east-1"],
       [cloud |-> "gcp", region |-> "us-central1"],
       [cloud |-> "aws", region |-> "us-west-2"] >>

\* no construction is running.  exists tells whether the Pinecone project
\* holds an index of name index_name, created how many indexes this program
\* has created in it; log is every call to the Pinecone client so far
ConstructionIdle ==
    [pc |-> "idle", exists |-> FALSE, created |-> 0, runs |-> 0,
     attempt |-> 0, success |-> FALSE, log |-> << >>, service |-> NoService]

\* a process starts against a project that holds the index already or not
ConstructInit ==
    \E exists \in BOOLEAN :
        construction = [ConstructionIdle EXCEPT !.exists = exists]

AfterEnsureErrorRaises(cause) == "raised"

\* rag.py 113-116: the except clause of _ensure_index_exists prints and does
\* not raise, so __init__ goes on to connect
AfterEnsureError(cause) == "connect"

AfterCreateNoBreak(ok, attempt) ==
    IF attempt < Len(specs_to_try) THEN "create"
    ELSE IF ok THEN "connect"
    ELSE AfterEnsureError("Could not create Pinecone index")

\* rag.py 99-108: after create_index with configuration number attempt: the
\* loop is left at the first success, the next configuration is tried after a
\* failure, and after the last failure the exception raised at line 108 goes
\* to the except clause
AfterCreate(ok, attempt) ==
    IF ok THEN "connect"
    ELSE IF attempt < Len(specs_to_try) THEN "create"
    ELSE AfterEnsureError("Could not create Pinecone index")

\* rag.py 24-39: RAGService() is called in a new process (the module global
\* of a new process is None); self.index = None
ConstructStart ==
    /\ construction.pc \in {"idle", "done"}
    /\ construction.runs < MaxConstructions
    /\ construction' =
         [construction EXCEPT !.pc = "list", !.runs = @ + 1, !.attempt = 0,
                              !.success = FALSE, !.service = NoService]
    /\ UNCHANGED <<chunker, embedder, serviceVars>>

\* rag.py 53-80, 110-111: list_indexes() raises, or its names are read and
\* index_name is looked up in them
EnsureList ==
    /\ construction.pc = "list"
    /\ \E raises \in BOOLEAN :
         LET index_names == IF construction.exists THEN {index_name} ELSE {}
             listed      == index_name \in index_names
         IN  construction' =
               [construction EXCEPT
                  !.log = Append(@, [run |-> construction.runs, op |-> "list_indexes",
                                     ok |-> ~raises, listed |-> ~raises /\ listed]),
                  !.attempt = 1,
                  !.pc = IF raises THEN AfterEnsureError("list_indexes")
                         ELSE IF listed THEN "connect" ELSE "create"]
    /\ UNCHANGED <<chunker, embedder, serviceVars>>

\* rag.py 91-108: one create_index call of the loop; the project refuses a
\* second index of the same name, and may refuse the first
EnsureCreate ==
    /\ construction.pc = "create"
    /\ \E accepted \in BOOLEAN :
         LET ok == accepted /\ ~construction.exists
         IN  construction' =
               [construction EXCEPT
                  !.log = Append(@, [run |-> construction.runs, op |-> "create_index",
                                     ok |-> ok, name |-> index_name,
                                     spec |-> specs_to_try[construction.attempt]]),
                  !.exists  = @ \/ ok,
                  !.created = IF ok THEN @ + 1 ELSE @,
                  !.success = @ \/ ok,
                  !.attempt = @ + 1,
                  !.pc = AfterCreate(ok, construction.attempt)]
    /\ UNCHANGED <<chunker, embedder, serviceVars>>

\* rag.py 41-47: self.pc.Index(index_name) returns the handle of an index
\* that exists unless the call fails; it raises for an index that does not
\* exist, and self.index stays None
InitConnect ==
    /\ construction.pc = "connect"
    /\ \E raises \in BOOLEAN :
         LET connected == construction.exists /\ ~raises
         IN  construction' =
               [construction EXCEPT
                  !.log = Append(@, [run |-> construction.runs, op |-> "Index",
                                     ok |-> connected]),
                  !.service = RAGService(connected),
                  !.pc = "done"]
    /\ UNCHANGED <<chunker, embedder, serviceVars>>

ConstructNext == ConstructStart \/ EnsureList \/ EnsureCreate \/ InitConnect

\* ------------------------------------------------ the service: the upload

UploadValidationCaseSensitive(file) ==
    IF ~EndsWith(file.filename, DotPdf) THEN "Only PDF files are supported"
    ELSE IF file.size > MaxUploadBytes THEN "File too large. Maximum size is 10MB"
    ELSE IF file.size = 0 THEN "Empty file uploaded"
    ELSE "ok"

\* courses.py 52-71: the checks of the upload operation, "ok" or the detail
\* of the 400 it raises
UploadValidation(file) ==
    IF ~EndsWith(LowerStr(file.filename), DotPdf) THEN "Only PDF files are supported"
    ELSE IF file.size > MaxUploadBytes THEN "File too large. Maximum size is 10MB"
    ELSE IF file.size = 0 THEN "Empty file uploaded"
    ELSE "ok"

\* courses.py 45-80: the upload operation up to its call of rag.upload_document
RouteUpload ==
    /\ pc = "idle"
    /\ \E user \in Users, file \in Files :
         /\ req' = [op |-> "upload", user |-> user, file |-> file]
         /\ IF UploadValidation(file) # "ok"
            THEN /\ resp' = [status |-> 400, detail |-> UploadValidation(file)]
                 /\ pc' = "responded"
                 /\ UNCHANGED <<rag_service, uploads>>
            ELSE /\ uploads < MaxUploads
                 /\ uploads' = uploads + 1
                 /\ \E connected \in ConnectOutcomes :
                      rag_service' = get_rag_service(connected)
                 /\ resp' = NoResp
                 /\ pc' = "check_index"
    /\ UNCHANGED <<chunker, embedder, construction, tasks, chats, pinecone, materials, uuids, loc,
                   calls, matches, result>>

ExceptPropagates(cause) == [raised |-> TRUE, cause |-> cause]

\* rag.py 280-285: the except clause of upload_document
Except(cause) ==
    [success |-> FALSE, message |-> <<"Error processing document", cause>>]

IndexAvailableNotChecked(service) == TRUE

\* rag.py 202: self.index is not None
IndexAvailable(service) == service.index # None

\* rag.py 198-203, 280-285: what the index check at the start of
\* upload_document makes the method return: nothing when the index is there
\* and the ingestion goes on, else the failure of the except clause
IndexCheck(service) ==
    IF IndexAvailable(service) THEN NoResult
    ELSE Except("Pinecone index not available")

\* rag.py 198-203: the index check at the start of upload_document
UploadCheckIndex ==
    /\ pc = "check_index"
    /\ calls' = Append(calls, [op |-> "check_index", ok |-> IndexAvailable(rag_service)])
    /\ IF IndexCheck(rag_service) = NoResult
       THEN /\ pc' = "extract"
            /\ UNCHANGED result
       ELSE /\ pc' = "returned"
            /\ result' = IndexCheck(rag_service)
    /\ loc' = [loc EXCEPT !.rows_before = Len(materials)]
    /\ UNCHANGED <<chunker, embedder, construction, tasks, chats, rag_service, pinecone, materials, uuids,
                   uploads, req, matches, resp>>

\* rag.py 205-212: text extraction
UploadExtract ==
    /\ pc = "extract"
    /\ LET r == extract_text_from_pdf(req.file.pdf)
       IN  /\ calls' = Append(calls, [op |-> "extract", ok |-> ~r.raised])
           /\ IF r.raised \/ Strip(r.text) = << >>
              THEN /\ pc' = "returned"
                   /\ result' = Except("Error extracting text from PDF")
                   /\ UNCHANGED loc
              ELSE /\ pc' = "chunk"
                   /\ loc' = [loc EXCEPT !.text_content = r.text]
                   /\ UNCHANGED result
    /\ UNCHANGED <<chunker, embedder, construction, tasks, chats, rag_service, pinecone, materials, uuids,
                   uploads, req, matches, resp>>

\* rag.py 214-217: chunking with the default chunk_size and overlap
UploadChunk ==
    /\ pc = "chunk"
    /\ calls' = Append(calls, [op |-> "chunk", ok |-> TRUE])
    /\ loc' = [loc EXCEPT !.chunks = chunk_text(loc.text_content, DefaultChunkSize,
                                                DefaultOverlap)]
    /\ pc' = "embed"
    /\ UNCHANGED <<chunker, embedder, construction, tasks, chats, rag_service, pinecone, materials, uuids,
                   uploads, req, matches, result, resp>>

\* the failures of the embedding service during one get_embeddings of n items
\* that Spec considers: none, or the first item only (SpecEmbed has them all)
EmbedOutcomes(n) ==
    {[i \in 1..n |-> FALSE]} \cup {[i \in 1..n |-> i = 1]}

AfterEmbedPersistsFirst(vectors) == "persist"

\* rag.py 242-251: after the vectors are built the batches are upserted
AfterEmbed(vectors) == IF Len(vectors) > 0 THEN "upsert" ELSE "persist"

\* rag.py 219-240: the embeddings of all chunks, the chunk ids and the vectors
UploadEmbed ==
    /\ pc = "embed"
    /\ \E fails \in EmbedOutcomes(Len(loc.chunks)) :
         LET embeddings == get_embeddings(loc.chunks, fails)
             vectors    == BuildVectors(loc.chunks, embeddings, req.file.filename,
                                        req.user, uuids)
         IN  /\ calls' = calls \o [i \in 1..Len(loc.chunks) |->
                                     [op |-> "embed", ok |-> ~fails[i]]]
             /\ loc' = [loc EXCEPT !.vectors = vectors, !.i = 0]
             /\ uuids' = uuids + Len(loc.chunks)
             /\ pc' = AfterEmbed(vectors)
    /\ UNCHANGED <<chunker, embedder, construction, tasks, chats, rag_service, pinecone, materials,
                   uploads, req, matches, result, resp>>

BatchOneShort(vectors, i) ==
    SubSeq(vectors, i + 1, Min(i + batch_size - 1, Len(vectors)))

\* rag.py 246: batch = vectors[i:i + batch_size]
Batch(vectors, i) == SubSeq(vectors, i + 1, Min(i + batch_size, Len(vectors)))

\* rag.py 245-247: one batch of the upsert loop; the call may raise, and a
\* call that raises is taken to have written nothing.  The call records the
\* chunk_index of the entries it was given.
UploadUpsert ==
    /\ pc = "upsert"
    /\ \E ok \in BOOLEAN :
         LET batch == Batch(loc.vectors, loc.i)
         IN  /\ calls' = Append(calls,
                    [op |-> "upsert", ok |-> ok,
                     batch |-> [k \in 1..Len(batch) |-> batch[k].metadata.chunk_index]])
             /\ IF ok
                THEN /\ pinecone' = Upsert(pinecone, batch)
                     /\ loc' = [loc EXCEPT !.i = loc.i + batch_size]
                     /\ pc' = IF loc.i + batch_size < Len(loc.vectors)
                              THEN "upsert" ELSE "persist"
                     /\ UNCHANGED result
                ELSE /\ pc' = "returned"
                     /\ result' = Except("upsert")
                     /\ UNCHANGED <<pinecone, loc>>
    /\ UNCHANGED <<chunker, embedder, construction, tasks, chats, rag_service, materials, uuids,
                   uploads, req, matches, resp>>

\* rag.py 261: the stored prefix text_content[:5000], scaled 5000 -> 4
StoredTextLen == 4

\* rag.py 254-266: the CourseMaterial row of a document; id is the primary
\* key the database assigns at the commit
CourseMaterial(id, filename, size, text_content, user_id, chunks) ==
    [id |-> id, course_id |-> 1, filename |-> filename,
     original_filename |-> filename, file_type |-> "pdf", file_size |-> size,
     extracted_text |-> Slice(text_content, 0, StoredTextLen),
     is_processed |-> TRUE, uploaded_by |-> user_id,
     description |-> Len(chunks)]

\* the next primary key of table course_materials
NextMaterialId ==
    IF materials = << >> THEN 1
    ELSE MaxOf({materials[k].id : k \in 1..Len(materials)}) + 1

\* rag.py 251-278: the row is added, committed and refreshed, and the success
\* result is returned; commit and refresh may each raise
UploadPersist ==
    /\ pc = "persist"
    /\ \E outcome \in {"ok", "commit raises", "refresh raises"} :
         LET row == CourseMaterial(NextMaterialId, req.file.filename, req.file.size,
                                   loc.text_content, req.user, loc.chunks)
         IN  /\ calls' = calls \o
                   <<[op |-> "db.add", ok |-> TRUE],
                     [op |-> "db.commit", ok |-> outcome # "commit raises"]>> \o
                   (IF outcome = "commit raises" THEN << >>
                    ELSE <<[op |-> "db.refresh", ok |-> outcome = "ok"]>>)
             /\ materials' = IF outcome = "commit raises" THEN materials
                             ELSE Append(materials, row)
             /\ result' =
                  IF outcome = "ok"
                  THEN [success |-> TRUE,
                        message |-> <<"processed successfully", req.file.filename>>,
                        course_id |-> row.id,
                        chunks_created |-> Len(loc.chunks),
                        text_length |-> Len(loc.text_content)]
                  ELSE Except(outcome)
             /\ pc' = "returned"
    /\ UNCHANGED <<chunker, embedder, construction, tasks, chats, rag_service, pinecone, uuids,
                   uploads, req, loc, matches, resp>>

\* courses.py 82-96: the upload operation after rag.upload_document returned;
\* the HTTPException(400) of line 90 is raised inside the try block, whose
\* except clause answers 500
RouteUploadReturn ==
    /\ pc = "returned"
    /\ resp' =
         IF "raised" \in DOMAIN result
         THEN [status |-> 500, detail |-> <<"Error processing document", result.cause>>]
         ELSE IF result.success
         THEN [status |-> 200, message |-> result.message,
               course_id |-> result.course_id,
               chunks_created |-> result.chunks_created,
               filename |-> req.file.filename]
         ELSE [status |-> 500,
               detail |-> <<"Error processing document", 400, result.message>>]
    /\ pc' = "responded"
    /\ loc' = NoLoc
    /\ UNCHANGED <<chunker, embedder, construction, tasks, chats, rag_service, pinecone, materials, uuids,
                   uploads, req, calls, matches, result>>

\* -------------------------------------------- the service: search and ask

\* the query and question texts: one with words, one of whitespace only and
\* the empty one
Queries == {<<"a", "a", "a">>, <<" ", "\n">>, << >>}

\* the top_k values a caller passes to the search operation
TopKs == {0, 1, 5}

\* rag.py 305-319: what search_documents returns for the matches found ([] in
\* the except clause when the query raised), with what it called
SearchResult(found, top_k, embedRaises, raised) ==
    [results |-> [i \in 1..Len(found) |->
                    [text        |-> found[i].metadata.text,
                     filename    |-> found[i].metadata.filename,
                     score       |-> found[i].score,
                     chunk_index |-> found[i].metadata.chunk_index]],
     matches |-> found,
     calls   |-> <<[op |-> "embed", ok |-> ~embedRaises],
                   [op |-> "query", ok |-> ~raised, top_k |-> top_k]>>]

\* rag.py 287-319: search_documents against the index entries; embedRaises
\* and queryRaises tell whether the embedding call and index.query raise.
\* index.query also raises for a top_k below 1.  calls and matches are what
\* the method called and what index.query returned.
search_documents(service, entries, query, user_id, top_k, embedRaises, queryRaises) ==
    IF service.index = None
    THEN [results |-> << >>, matches |-> << >>, calls |-> << >>]
    ELSE SearchResult(
             IF queryRaises \/ top_k < 1 THEN << >>
             ELSE IndexQuery(entries, get_embeddings(<<query>>, <<embedRaises>>)[1],
                             SearchFilter(user_id), top_k),
             top_k, embedRaises, queryRaises \/ top_k < 1)

PreviewUnbounded(text) == text

\* rag.py 367: the preview of a source
Preview(text) ==
    IF Len(text) > PreviewLen THEN Slice(text, 0, PreviewLen) \o <<".", ".", ".">>
    ELSE text

\* rag.py 329: the answer when nothing was found
NoInformation == "I couldn't find any relevant information in your uploaded documents."

\* rag.py 381: the answer of the except clause
Apology == "I apologize, but I encountered an error while processing your question"

\* rag.py 360, 373: what the language model does with the one
\* generate_content call: response.text is a text, is the empty text, or the
\* call or the reading of response.text raises
LlmOutcomes == {"text", "empty", "raises"}

NoRelevantChunksNever(relevant_chunks) == FALSE

\* rag.py 327: not relevant_chunks
NoRelevantChunks(relevant_chunks) == relevant_chunks = << >>

\* rag.py 335-338: the context block of the chunks found
Context(chunks) ==
    [i \in 1..Len(chunks) |->
        [filename |-> chunks[i].filename, text |-> chunks[i].text]]

\* rag.py 363-370: the sources of the chunks found
Sources(chunks) ==
    [i \in 1..Len(chunks) |->
        [filename        |-> chunks[i].filename,
         relevance_score |-> chunks[i].score,
         preview         |-> Preview(chunks[i].text)]]

\* rag.py 327-384: answer_question after its search returned s
Answer(s, question, llm) ==
    IF NoRelevantChunks(s.results)
    THEN [answer |-> [kind |-> NoInformation], sources |-> << >>,
          has_context |-> FALSE, matches |-> s.matches, calls |-> s.calls]
    ELSE IF llm = "raises"
    THEN [answer |-> [kind |-> Apology], sources |-> << >>,
          has_context |-> FALSE, matches |-> s.matches,
          calls |-> Append(s.calls, [op |-> "generate_content", ok |-> FALSE,
                                     llm |-> llm, context |-> Context(s.results)])]
    ELSE [answer |-> [kind |-> llm, context |-> Context(s.results),
                      question |-> question],
          sources |-> Sources(s.results), has_context |-> TRUE,
          chunks_used |-> Len(s.results), matches |-> s.matches,
          calls |-> Append(s.calls, [op |-> "generate_content", ok |-> TRUE,
                                     llm |-> llm, context |-> Context(s.results)])]

\* rag.py 321-384: answer_question; llm tells what the language model does.
\* The context block is kept as the list of its items, and the call of
\* generate_content records the context of the prompt it was given.
answer_question(service, entries, question, user_id, embedRaises, queryRaises, llm) ==
    Answer(search_documents(service, entries, question, user_id, DefaultTopK,
                            embedRaises, queryRaises),
           question, llm)

ForwardedTopKUncapped(top_k) == top_k

\* courses.py 175: top_k=min(top_k, 10)
ForwardedTopK(top_k) == Min(top_k, MaxTopK)

\* courses.py 178-182: the search operation returns what search_documents
\* returned, r
SearchReturns(query, r) ==
    /\ calls' = r.calls
    /\ matches' = r.matches
    /\ result' = [results |-> r.results]
    /\ resp' = [status |-> 200, query |-> query, results |-> r.results,
                total_results |-> Len(r.results)]

\* courses.py 157-188: the search operation
RouteSearch ==
    /\ pc = "idle"
    /\ \E user \in Users, query \in Queries, top_k \in TopKs :
         /\ req' = [op |-> "search", user |-> user, query |-> query, top_k |-> top_k]
         /\ IF Strip(query) = << >>
            THEN /\ resp' = [status |-> 400, detail |-> "Search query cannot be empty"]
                 /\ UNCHANGED <<rag_service, calls, matches, result>>
            ELSE \E connected \in ConnectOutcomes, embedRaises \in BOOLEAN,
                    queryRaises \in BOOLEAN :
                   /\ rag_service' = get_rag_service(connected)
                   /\ SearchReturns(query,
                         search_documents(get_rag_service(connected), pinecone,
                                          query, user, ForwardedTopK(top_k),
                                          embedRaises, queryRaises))
    /\ pc' = "responded"
    /\ UNCHANGED <<chunker, embedder, construction, tasks, chats, pinecone, materials, uuids, uploads, loc>>

AskValidationEmptyOnly(question) ==
    IF question = << >> THEN "Question cannot be empty" ELSE "ok"

\* courses.py 104-108: the check of the ask operation, "ok" or the detail of
\* the 400 it raises
AskValidation(question) ==
    IF Strip(question) = << >> THEN "Question cannot be empty" ELSE "ok"

\* courses.py 117-122: the ask operation returns what answer_question
\* returned, r; chunks_used is result.get("chunks_used")
AskReturns(r) ==
    /\ calls' = r.calls
    /\ matches' = r.matches
    /\ result' = [answer |-> r.answer, sources |-> r.sources,
                  has_context |-> r.has_context]
    /\ resp' = [status |-> 200, answer |-> r.answer, sources |-> r.sources,
                has_context |-> r.has_context,
                chunks_used |-> IF "chunks_used" \in DOMAIN r
                                THEN <<r.chunks_used>> ELSE << >>]

\* courses.py 98-128: the ask operation
RouteAsk ==
    /\ pc = "idle"
    /\ \E user \in Users, question \in Queries :
         /\ req' = [op |-> "ask", user |-> user, question |-> question]
         /\ IF AskValidation(question) # "ok"
            THEN /\ resp' = [status |-> 400, detail |-> AskValidation(question)]
                 /\ UNCHANGED <<rag_service, calls, matches, result>>
            ELSE \E connected \in ConnectOutcomes, embedRaises \in BOOLEAN,
                    queryRaises \in BOOLEAN, llm \in LlmOutcomes :
                   /\ rag_service' = get_rag_service(connected)
                   /\ AskReturns(
                         answer_question(get_rag_service(connected), pinecone,
                                         question, user, embedRaises, queryRaises,
                                         llm))
    /\ pc' = "responded"
    /\ UNCHANGED <<chunker, embedder, construction, tasks, chats, pinecone, materials, uuids, uploads, loc>>

\* ------------------------------- the service: list and delete documents

\* s.split(): the maximal runs of characters of s that are not whitespace, in
\* order; word is the run being read
RECURSIVE SplitFrom(_, _, _)
SplitFrom(s, i, word) ==
    IF i > Len(s) THEN (IF word = << >> THEN << >> ELSE <<word>>)
    ELSE IF IsSpace(s[i])
         THEN (IF word = << >> THEN << >> ELSE <<word>>) \o SplitFrom(s, i + 1, << >>)
         ELSE SplitFrom(s, i + 1, Append(word, s[i]))

Split(s) == SplitFrom(s, 1, << >>)

\* rag.py 401: the words taken for one chunk in the estimate of total_chunks
WordsPerChunk == 100

\* rag.py 386-409: get_user_documents; the rows user_id uploaded, or [] when
\* the query raises.  upload_date is left out, as uploaded_at is in the rows.
get_user_documents(user_id, rows, raises) ==
    IF raises THEN << >>
    ELSE LET mine == SelectSeq(rows, LAMBDA m : m.uploaded_by = user_id)
         IN  [k \in 1..Len(mine) |->
                [id           |-> mine[k].id,
                 filename     |-> mine[k].filename,
                 file_size    |-> mine[k].file_size,
                 total_chunks |-> IF mine[k].extracted_text # << >>
                                  THEN Len(Split(mine[k].extracted_text))
                                         \div WordsPerChunk
                                  ELSE 0,
                 status       |-> IF mine[k].is_processed THEN "processed"
                                  ELSE "pending"]]

\* courses.py 130-155: the list-documents operation
RouteDocuments ==
    /\ pc = "idle"
    /\ \E user \in Users, connected \in ConnectOutcomes, raises \in BOOLEAN :
         /\ req' = [op |-> "documents", user |-> user]
         /\ rag_service' = get_rag_service(connected)
         /\ calls' = <<[op |-> "db.query", ok |-> ~raises]>>
         /\ result' = [documents |-> get_user_documents(user, materials, raises)]
         /\ resp' = [status |-> 200,
                     documents |-> get_user_documents(user, materials, raises)]
    /\ pc' = "responded"
    /\ UNCHANGED <<chunker, embedder, construction, tasks, chats, pinecone, materials,
                   uuids, uploads, loc, matches>>

\* models/course.py 6-31: the attributes of class Course, columns and
\* relationships
CourseAttributes ==
    {"id", "title", "description", "course_code", "instructor_id", "semester",
     "credits", "is_active", "enrollment_open", "created_at", "updated_at",
     "instructor", "enrollments", "materials", "chats"}

\* courses.py 190-226: the delete operation.  The filter of lines 201-204 is
\* built from Course.id and Course.user_id before any row is read; class
\* Course has no attribute user_id, so line 203 raises AttributeError, lines
\* 206-218 (404, db.delete, db.commit, the success answer) do not run, and the
\* except clause of 222-226 answers 500.  No table and no index is touched.
RouteDelete ==
    /\ pc = "idle"
    /\ \E user \in Users, document_id \in 1..(Len(materials) + 1) :
         /\ req' = [op |-> "delete", user |-> user, document_id |-> document_id]
         /\ {"id", "user_id"} \ CourseAttributes # {}
         /\ calls' = << >>
         /\ resp' = [status |-> 500,
                     detail |-> <<"Error deleting document", "AttributeError",
                                  {"id", "user_id"} \ CourseAttributes>>]
    /\ pc' = "responded"
    /\ UNCHANGED <<chunker, embedder, construction, tasks, chats, rag_service, pinecone,
                   materials, uuids, uploads, loc, matches, result>>

\* the answered request is over: what belonged to it is gone, what it wrote
\* to the service, the index and the table stays
RequestEnds ==
    /\ pc = "responded"
    /\ pc' = "idle"
    /\ req' = NoReq
    /\ calls' = << >>
    /\ matches' = << >>
    /\ result' = NoResult
    /\ resp' = NoResp
    /\ UNCHANGED <<chunker, embedder, construction, tasks, chats, rag_service, pinecone,
                   materials, uuids, uploads, loc>>

\* ------------------------------------------------- the chat operation

\* chat.py 36: course_id of a chat message is optional
NoCourse == 0

\* the course_id values of chat messages: none, the course every upload is
\* stored under (rag.py 255) and another one
CourseIds == {NoCourse, 1, 2}

\* chat.py 35, 56: the user_id values of chat messages: the users of table
\* users and one that is not in it
UnknownUser == 3

\* the messages of the chat: the one word of a short document, the words of
\* both documents, and a word no document has
ChatMessages ==
    { <<"a", ".">>, <<"a", "a", ".", "\n", "a", ".">>, <<"a", "a", "a">> }

\* chat.py 152: query.limit(10)
ChatMaterialLimit == 10

\* chat.py 184: relevant_materials[:3]
ChatTopMaterials == 3

\* chat.py 177: extracted_text[:1000], scaled 1000 -> 3 so that a stored text
\* of StoredTextLen characters is cut
ChatContentLen == 3

\* chat.py 163, 167: set(s.lower().split())
Keywords(s) == {Split(LowerStr(s))[k] : k \in 1..Len(Split(LowerStr(s)))}

\* chat.py 170: the keyword overlap of a message and a material
Overlap(message, material) ==
    Cardinality(Keywords(message) \cap Keywords(material.extracted_text))

\* chat.py 146-150: the materials the query selects: the processed ones, of
\* course course_id if one is given.  get_relevant_context is not given the
\* user of the message; user_id is here for the record only.
ChatFilter(material, course_id, user_id) ==
    /\ material.is_processed
    /\ course_id # NoCourse => material.course_id = course_id

\* chat.py 181: list.sort by descending score, items of equal score in their
\* order (the sort is stable)
RECURSIVE SortByScore(_)
SortByScore(items) ==
    IF items = << >> THEN << >>
    ELSE LET best == CHOOSE k \in 1..Len(items) :
                        /\ \A j \in 1..Len(items) : items[j].score <= items[k].score
                        /\ \A j \in 1..(k - 1) : items[j].score < items[k].score
         IN  <<items[best]>> \o
             SortByScore(SubSeq(items, 1, best - 1) \o
                         SubSeq(items, best + 1, Len(items)))

\* chat.py 165-178: the materials with text that share a keyword with the
\* message.  relevance_score is overlap / len(message_keywords); the divisor
\* is the same for every material of one message, so the score kept is the
\* overlap.
RelevantMaterials(message, selected) ==
    LET with == SelectSeq(selected,
                          LAMBDA m : m.extracted_text # << >> /\ Overlap(message, m) > 0)
    IN  [k \in 1..Len(with) |->
            [material |-> with[k], score |-> Overlap(message, with[k]),
             content  |-> Slice(with[k].extracted_text, 0, ChatContentLen)]]

\* chat.py 139-207: get_relevant_context; the items of the context block in
\* order, << >> for the empty context and no sources, which is also what the
\* except clause returns when the query raises
get_relevant_context(message, course_id, user_id, rows, raises) ==
    IF raises THEN << >>
    ELSE LET selected == SelectSeq(rows, LAMBDA m : ChatFilter(m, course_id, user_id))
             limited  == SubSeq(selected, 1, Min(Len(selected), ChatMaterialLimit))
             sorted   == SortByScore(RelevantMaterials(message, limited))
         IN  SubSeq(sorted, 1, Min(Len(sorted), ChatTopMaterials))

\* chat.py 193-196: sources, the original file name of every item
ChatSources(items) == [k \in 1..Len(items) |-> items[k].material.original_filename]

\* chat.py 209-271: generate_ai_response, which returns the text of the model
\* for the prompt of the message and the context, or one of two fixed
\* apologies when the text is empty or the call raises
generate_ai_response(message, items, user_name, llm) ==
    IF llm = "text"
    THEN [kind |-> "text", message |-> message, user_name |-> user_name,
          context |-> [k \in 1..Len(items) |->
                         [filename |-> items[k].material.original_filename,
                          content  |-> items[k].content]]]
    ELSE IF llm = "empty" THEN [kind |-> "trouble generating a response"]
    ELSE [kind |-> "technical difficulties"]

\* chat.py 90-98: the row of table chats
Chat(id, user_id, message, ai_response, course_id, conversation_id, items) ==
    [id |-> id, user_id |-> user_id, user_message |-> message,
     ai_response |-> ai_response, course_id |-> course_id,
     conversation_id |-> conversation_id,
     context_type |-> IF items # << >> THEN "rag" ELSE "general"]

\* chat.py 66-115: send_message for a user that exists, after
\* get_relevant_context returned items: the answer is generated, the chat is
\* saved (a failure of the commit or of the refresh is logged and rolled back,
\* and the request goes on) and the response returned
ChatAnswers(user_id, message, course_id, items, llm, save) ==
    /\ matches' = items
    /\ calls' = <<[op |-> "generate_content", ok |-> llm # "raises",
                   context |-> items],
                  [op |-> "db.commit", ok |-> save # "commit raises"]>>
    /\ chats' = IF save = "commit raises" THEN chats
                ELSE Append(chats,
                            Chat(Len(chats) + 1, user_id, message,
                                 generate_ai_response(message, items, user_id, llm),
                                 course_id, <<"conv", user_id>>, items))
    /\ result' = [context |-> items, sources |-> ChatSources(items)]
    /\ resp' = [status |-> 200,
                response |-> generate_ai_response(message, items, user_id, llm),
                conversation_id |-> <<"conv", user_id>>,
                sources |-> ChatSources(items)]

\* chat.py 44-137: the chat-message operation
RouteChat ==
    /\ pc = "idle"
    /\ \E user_id \in Users \cup {UnknownUser}, message \in ChatMessages,
          course_id \in CourseIds :
         /\ req' = [op |-> "chat", user |-> user_id, message |-> message,
                    course_id |-> course_id]
         /\ IF user_id \notin Users
            THEN /\ resp' = [status |-> 404, detail |-> "User not found"]
                 /\ UNCHANGED <<chats, calls, matches, result>>
            ELSE /\ Len(chats) < MaxChats
                 /\ \E raises \in BOOLEAN, llm \in LlmOutcomes,
                       save \in {"ok", "commit raises", "refresh raises"} :
                      ChatAnswers(user_id, message, course_id,
                                  get_relevant_context(message, course_id, user_id,
                                                       materials, raises),
                                  llm, save)
    /\ pc' = "responded"
    /\ UNCHANGED <<chunker, embedder, construction, tasks, rag_service, pinecone,
                   materials, uuids, uploads, loc>>

\* the files whose ingestion stores a document
IngestibleFiles == {f \in ValidFiles : ~extract_text_from_pdf(f.pdf).raised}

\* rag.py 254-266: the row that a successful upload of file by user_id stores
\* under primary key id
StoredMaterial(id, file, user_id) ==
    CourseMaterial(id, file.filename, file.size, extract_text_from_pdf(file.pdf).text,
                   user_id,
                   chunk_text(extract_text_from_pdf(file.pdf).text, DefaultChunkSize,
                              DefaultOverlap))

\* table course_materials after up to MaxChatRows successful uploads, of any
\* ingestible file by any user
ChatInit ==
    \E n \in 0..MaxChatRows :
      \E owners \in [1..n -> Users], files \in [1..n -> IngestibleFiles] :
        materials = [k \in 1..n |-> StoredMaterial(k, files[k], owners[k])]

ChatNext == RouteChat \/ RequestEnds

\* ------------------------------------------------- claims on the service

\* the calls of the request in flight to operation op
CallsTo(op) == SelectSeq(calls, LAMBDA c : c.op = op)

\* the calls of the request in flight to operation op that raised
FailedCallsTo(op) == SelectSeq(calls, LAMBDA c : c.op = op /\ ~c.ok)

\* upload_document is running or has returned to the upload operation
InUpload ==
    req.op = "upload" /\ pc \in {"check_index", "extract", "chunk", "embed",
                                 "upsert", "persist", "returned"}

\* the ids of the entries the index holds
IndexedIds == {e.id : e \in pinecone}

\* the entries of the document being ingested that the index holds
IndexedOfThisDocument ==
    {k \in 1..Len(loc.vectors) : loc.vectors[k].id \in IndexedIds}

\* C1: whatever has been uploaded by whom, every match a search or an ask of
\* user A gets from the index is an entry that A's upload built and stamped
\* with A's id, the search results and the answer's sources are made of these
\* matches one for one, and every index entry carries its uploader's id.
C1_OnlyOwnEntriesReturned ==
    /\ \A e \in pinecone : e.metadata.user_id = e.by
    /\ (pc = "responded" /\ req.op \in {"search", "ask"} /\ resp.status = 200) =>
         /\ \A i \in 1..Len(matches) :
              matches[i].by = req.user /\ matches[i].metadata.user_id = req.user
         /\ req.op = "search" =>
              /\ Len(resp.results) = Len(matches)
              /\ \A i \in 1..Len(matches) :
                   /\ resp.results[i].text = matches[i].metadata.text
                   /\ resp.results[i].filename = matches[i].metadata.filename
         /\ req.op = "ask" =>
              /\ Len(resp.sources) <= Len(matches)
              /\ \A i \in 1..Len(resp.sources) :
                   /\ resp.sources[i].filename = matches[i].metadata.filename
                   /\ resp.sources[i].preview = Preview(matches[i].metadata.text)

\* an ask answered with sources while the index also holds another user's entries
C1_Witness ==
    /\ pc = "responded" /\ req.op = "ask" /\ resp.status = 200
    /\ Len(resp.sources) >= 1
    /\ \E e \in pinecone : e.by # req.user

\* the calls that extract, chunk, embed, upsert or touch the metadata store
PipelineCalls ==
    SelectSeq(calls, LAMBDA c : c.op \in {"extract", "chunk", "embed", "upsert",
                                          "db.add", "db.commit", "db.refresh"})

\* C6: when the service has no index handle, upload_document returns a failure
\* result without having extracted, chunked, embedded, upserted or touched
\* the metadata store.
C6_NoIndexFailsBeforeAnyWork ==
    (InUpload /\ rag_service.index = None) =>
        /\ PipelineCalls = << >>
        /\ pc \in {"check_index", "returned"}
        /\ pc = "returned" => (result.success = FALSE /\ "message" \in DOMAIN result)

\* upload_document has returned its failure for a service without an index
C6_Witness ==
    /\ InUpload /\ pc = "returned" /\ rag_service.index = None
    /\ result.success = FALSE
    /\ calls = <<[op |-> "check_index", ok |-> FALSE]>>

\* the text upload_document extracts from the file of the request
ExtractedText == extract_text_from_pdf(req.file.pdf).text

\* what upload_document returns is a tagged result, never a raised exception;
\* a success names the committed row, the number of chunks and the length of
\* the extracted text
TaggedResult ==
    /\ "raised" \notin DOMAIN result
    /\ result.success \in BOOLEAN
    /\ "message" \in DOMAIN result
    /\ result.success =>
         /\ Len(materials) = loc.rows_before + 1
         /\ result.course_id = materials[Len(materials)].id
         /\ materials[Len(materials)].filename = req.file.filename
         /\ result.chunks_created =
              Len(chunk_text(ExtractedText, DefaultChunkSize, DefaultOverlap))
         /\ result.chunks_created = Cardinality(IndexedOfThisDocument)
         /\ result.text_length = Len(ExtractedText)

\* C7 (as claimed): upload_document never raises; a failure of extraction, of
\* embedding, of an upsert batch or of the metadata persistence gives a result
\* with success=false and a message, a success gives success=true with the
\* document id, the chunk count and the text length.
C7_EveryFailureGivesFailureResult ==
    (InUpload /\ pc = "returned") =>
        /\ TaggedResult
        /\ (\E k \in 1..Len(calls) : ~calls[k].ok) => ~result.success

\* C7 (amended): upload_document never raises; a missing index and a failure of
\* extraction, of an upsert batch or of the metadata commit or refresh give a
\* result with success=false and a message, and nothing else does; a success
\* gives success=true with the document id, the chunk count and the text
\* length.  A failed embedding call does not fail the upload.
C7_UploadNeverRaises ==
    (InUpload /\ pc = "returned") =>
        /\ TaggedResult
        /\ ~result.success <=>
             \E k \in 1..Len(calls) : ~calls[k].ok /\ calls[k].op # "embed"

\* an upload returned success although an embedding call had failed
C7_Witness ==
    /\ InUpload /\ pc = "returned"
    /\ result.success
    /\ FailedCallsTo("embed") # << >>

\* C8 (as claimed): when upload_document returns a failure, the index holds no
\* entry of that document and the metadata store holds no record of it.
C8_FailureLeavesNoPartialState ==
    (InUpload /\ pc = "returned" /\ ~result.success) =>
        /\ IndexedOfThisDocument = {}
        /\ Len(materials) = loc.rows_before

\* the place of an operation in the order of the ingestion steps
StepRank(op) ==
    CASE op = "check_index" -> 0 [] op = "extract" -> 1 [] op = "chunk" -> 2
      [] op = "embed" -> 3 [] op = "upsert" -> 4 [] op = "db.add" -> 5
      [] op = "db.commit" -> 6 [] op = "db.refresh" -> 7 [] OTHER -> 8

\* the number of upsert batches of n vectors
Batches(n) == (n + batch_size - 1) \div batch_size

\* C9: the steps of one ingestion happen in the order index check, extraction,
\* chunking, embedding, upsert batches, metadata persist; an upsert is called
\* only after every chunk has been embedded, and the record is committed only
\* after every upsert batch has succeeded.
C9_IngestionStepsInOrder ==
    InUpload =>
        /\ calls # << >> => calls[1].op = "check_index"
        /\ \A i, j \in 1..Len(calls) :
             i < j => StepRank(calls[i].op) <= StepRank(calls[j].op)
        /\ CallsTo("upsert") # << >> =>
             /\ loc.chunks # << >>
             /\ Len(CallsTo("embed")) = Len(loc.chunks)
             /\ Len(CallsTo("chunk")) = 1 /\ Len(CallsTo("extract")) = 1
        /\ (CallsTo("db.commit") # << >> \/ Len(materials) > loc.rows_before) =>
             /\ FailedCallsTo("upsert") = << >>
             /\ Len(CallsTo("upsert")) = Batches(Len(loc.vectors))
             /\ Cardinality(IndexedOfThisDocument) = Len(loc.vectors)
             /\ Len(loc.vectors) = Len(loc.chunks)

\* an ingestion of two upsert batches that committed its record
C9_Witness ==
    /\ InUpload /\ pc = "returned" /\ result.success
    /\ Len(CallsTo("upsert")) >= 2
    /\ Len(materials) = loc.rows_before + 1

\* the file of the request is one the upload operation accepts
AcceptableFile ==
    /\ EndsWith(LowerStr(req.file.filename), <<".", "p", "d", "f">>)
    /\ req.file.size > 0
    /\ req.file.size <= 10485760

\* C10: the upload operation hands a file to upload_document only if its name
\* ends in .pdf, whatever the case, and it has more than 0 and at most 10 MiB
\* of bytes; any other file is answered 400 with a reason and without a call
\* to the extractor, the embedding service, the index or the metadata store,
\* and a file of these properties is not answered 400.
C10_OnlySmallPdfFilesIngested ==
    (req.op = "upload" /\ pc # "idle") =>
        /\ InUpload => AcceptableFile
        /\ (pc = "responded" /\ resp.status # 400) => AcceptableFile
        /\ ~AcceptableFile =>
             /\ pc = "responded" /\ resp.status = 400
             /\ resp.detail \in {"Only PDF files are supported",
                                 "File too large. Maximum size is 10MB",
                                 "Empty file uploaded"}
             /\ calls = << >>
             /\ result = NoResult
        /\ AcceptableFile => resp.status # 400

\* a file of exactly 10 MiB with an upper-case extension reached upload_document
C10_Witness ==
    /\ InUpload /\ pc = "check_index"
    /\ req.file.size = 10485760
    /\ req.file.filename = <<"b", ".", "P", "D", "F">>

\* C11: an ask whose question is empty or holds only whitespace is answered
\* 400 "Question cannot be empty", and no embedding, index-query or
\* language-model call is made for it, nor does answer_question return.
C11_BlankQuestionRejectedWithoutCalls ==
    (pc = "responded" /\ req.op = "ask" /\ Strip(req.question) = << >>) =>
        /\ resp.status = 400
        /\ resp.detail = "Question cannot be empty"
        /\ calls = << >>
        /\ matches = << >>
        /\ result = NoResult

\* a question of whitespace characters was rejected while the user had
\* entries in the index
C11_Witness ==
    /\ pc = "responded" /\ req.op = "ask"
    /\ req.question = <<" ", "\n">>
    /\ resp.status = 400
    /\ \E e \in pinecone : e.metadata.user_id = req.user

\* the index entries whose metadata names user as the owner
OwnEntries(user) == {e \in pinecone : e.metadata.user_id = user}

\* the answer for an owner without anything to answer from
IsNoInformationAnswer(r) ==
    /\ r.has_context = FALSE
    /\ r.sources = << >>
    /\ r.answer = [kind |-> NoInformation]
    /\ "chunks_used" \notin DOMAIN r \/ r.chunks_used = << >>

\* C12: for an owner without index entries answer_question returns, for every
\* non-empty question, has_context=false, no sources and the fixed
\* no-information message as a normal result (the ask is answered 200), and
\* the language model is not called; the entries of other owners, whatever
\* they are, do not change this.
C12_NoEntriesGivesNoInformation ==
    /\ (pc = "responded" /\ req.op = "ask" /\ resp.status = 200
           /\ OwnEntries(req.user) = {}) =>
          /\ IsNoInformationAnswer(resp)
          /\ CallsTo("generate_content") = << >>
    /\ pc = "idle" =>
          \A user \in Users, question \in Queries \ {<< >>},
             connected \in ConnectOutcomes, embedRaises \in BOOLEAN,
             queryRaises \in BOOLEAN, llm \in LlmOutcomes :
            OwnEntries(user) = {} =>
              LET r == answer_question(get_rag_service(connected), pinecone, question,
                                       user, embedRaises, queryRaises, llm)
              IN  /\ IsNoInformationAnswer(r)
                  /\ \A k \in 1..Len(r.calls) : r.calls[k].op # "generate_content"

\* an owner without entries asked while another owner had entries, and the
\* index was queried and returned
C12_Witness ==
    /\ pc = "responded" /\ req.op = "ask" /\ resp.status = 200
    /\ OwnEntries(req.user) = {} /\ pinecone # {}
    /\ Len(CallsTo("query")) = 1 /\ FailedCallsTo("query") = << >>
    /\ FailedCallsTo("embed") = << >>
    /\ IsNoInformationAnswer(resp)

\* the one language-model call of the ask in flight raised or gave no text
LlmGaveNoText ==
    \E k \in 1..Len(calls) :
        calls[k].op = "generate_content" /\ calls[k].llm \in {"raises", "empty"}

\* C13 (as claimed): when the index returned at least one match and the
\* language-model call raises or returns empty text, the ask still returns
\* normally after that one call, with the fixed apology as the answer and
\* has_context=true.
C13_LlmFailureKeepsContext ==
    (pc = "responded" /\ req.op = "ask" /\ matches # << >> /\ LlmGaveNoText) =>
        /\ resp.status = 200
        /\ Len(CallsTo("generate_content")) = 1
        /\ resp.answer = [kind |-> Apology]
        /\ resp.has_context = TRUE

\* text p is a prefix of text t
IsPrefix(p, t) == Len(p) <= Len(t) /\ SubSeq(t, 1, Len(p)) = p

\* the questions the ask operation hands to answer_question
NonBlankQueries == {q \in Queries : Strip(q) # << >>}

\* C14 (as claimed): once upload_document has returned success for owner A's
\* document, an ask of A on the index as it then is (the index available,
\* the query returning the nearest entries of A, other owners' entries
\* being there or not) has has_context=true and a source that names the
\* uploaded file and whose preview is a prefix of one of its chunks.
C14_AskAfterUploadFindsDocument ==
    (InUpload /\ pc = "returned" /\ result.success) =>
        \A question \in NonBlankQueries, embedRaises \in BOOLEAN, llm \in LlmOutcomes :
          LET r == answer_question(rag_service, pinecone, question, req.user,
                                   embedRaises, FALSE, llm)
          IN  /\ r.has_context = TRUE
              /\ \E i \in 1..Len(r.sources) :
                   /\ r.sources[i].filename = req.file.filename
                   /\ \E k \in 1..Len(loc.chunks) :
                        IsPrefix(r.sources[i].preview, loc.chunks[k])

\* the context blocks given to the language model by the ask in flight
PromptContexts ==
    LET g == CallsTo("generate_content")
    IN  [k \in 1..Len(g) |-> g[k].context]

\* the items xs are one per match of the index, in the order of the matches
OnePerMatch(xs) == Len(xs) = Len(matches)

\* C15 (as claimed): when the index returned matches, the context block and
\* the sources of the answer hold one item per match, in the order of the
\* matches, which is by descending score; a context item carries the
\* match's filename and text, a source its filename and score; chunks_used
\* is the number of sources.
C15_ContextAndSourcesFollowMatches ==
    (pc = "responded" /\ req.op = "ask" /\ matches # << >>) =>
        /\ \A i, j \in 1..Len(matches) : i < j => matches[i].score >= matches[j].score
        /\ Len(PromptContexts) = 1
        /\ OnePerMatch(PromptContexts[1])
        /\ \A i \in 1..Len(matches) :
             /\ PromptContexts[1][i].filename = matches[i].metadata.filename
             /\ PromptContexts[1][i].text = matches[i].metadata.text
        /\ OnePerMatch(resp.sources)
        /\ \A i \in 1..Len(matches) :
             /\ resp.sources[i].filename = matches[i].metadata.filename
             /\ resp.sources[i].relevance_score = matches[i].score
        /\ resp.chunks_used = <<Len(resp.sources)>>

\* the ask in flight was answered with sources; source i is made of match i
AnsweredWithSources ==
    /\ pc = "responded" /\ req.op = "ask" /\ resp.status = 200
    /\ resp.sources # << >>
    /\ Len(resp.sources) = Len(matches)

\* C16 (as claimed): every source preview is the first 200 characters of its
\* chunk's text, so it is never longer than 200 characters (PreviewLen here).
C16_PreviewIsFirstCharacters ==
    AnsweredWithSources =>
        \A i \in 1..Len(resp.sources) :
            /\ resp.sources[i].preview = Slice(matches[i].metadata.text, 0, PreviewLen)
            /\ Len(resp.sources[i].preview) <= PreviewLen

\* C16 (amended): a source preview is the whole text of its chunk when that
\* has at most 200 characters, else its first 200 characters followed by
\* "...", so a preview is never longer than 203 characters (PreviewLen + 3
\* here).
C16_PreviewBoundedWithEllipsis ==
    AnsweredWithSources =>
        \A i \in 1..Len(resp.sources) :
            LET text    == matches[i].metadata.text
                preview == resp.sources[i].preview
            IN  /\ Len(text) <= PreviewLen => preview = text
                /\ Len(text) > PreviewLen =>
                     preview = Slice(text, 0, PreviewLen) \o <<".", ".", ".">>
                /\ Len(preview) <= PreviewLen + 3

\* an answer with a source whose chunk is longer than the preview length and
\* one whose chunk is not
C16_Witness ==
    /\ AnsweredWithSources
    /\ \E i, j \in 1..Len(resp.sources) :
         /\ Len(matches[i].metadata.text) > PreviewLen
         /\ Len(resp.sources[i].preview) = PreviewLen + 3
         /\ Len(matches[j].metadata.text) <= PreviewLen
         /\ resp.sources[j].preview = matches[j].metadata.text

\* the top_k values of the index queries of the request in flight
QueriedTopKs ==
    LET q == CallsTo("query")
    IN  {q[k].top_k : k \in 1..Len(q)}

\* C17: an ask queries the index with top_k = 3; a search forwards
\* min(top_k, 10) for whatever top_k the caller passes (the cap is MaxTopK
\* here), so the value forwarded is at most the cap, and no search or ask
\* response holds more matches than the cap.
C17_ForwardedTopKIsCapped ==
    (pc = "responded" /\ req.op \in {"search", "ask"}) =>
        /\ req.op = "ask" => QueriedTopKs \subseteq {3}
        /\ req.op = "search" =>
             /\ QueriedTopKs \subseteq {Min(req.top_k, MaxTopK)}
             /\ \A k \in QueriedTopKs : k <= MaxTopK
        /\ Len(matches) <= MaxTopK
        /\ (req.op = "search" /\ resp.status = 200) => Len(resp.results) <= MaxTopK
        /\ (req.op = "ask" /\ resp.status = 200) =>
             Len(resp.sources) <= 3 /\ 3 <= MaxTopK

\* a search with top_k above the cap, by an owner with more entries than the
\* cap, was answered with as many results as the cap
C17_Witness ==
    /\ pc = "responded" /\ req.op = "search" /\ resp.status = 200
    /\ req.top_k > MaxTopK
    /\ Cardinality(OwnEntries(req.user)) > MaxTopK
    /\ QueriedTopKs = {MaxTopK}
    /\ Len(resp.results) = MaxTopK

\* the chunk_index values of the entries given to the upsert calls of the
\* upload in flight, in the order they were sent
RECURSIVE SentIndexes(_, _)
SentIndexes(upserts, k) ==
    IF k > Len(upserts) THEN << >>
    ELSE upserts[k].batch \o SentIndexes(upserts, k + 1)

\* C20: the n index entries of a document carry chunk_index 0..n-1 and are
\* sent in chunk order in batches of at most 100 (batch_size here), every
\* entry in exactly one batch; when no call fails there are exactly
\* ceil(n / batch_size) calls, and the chunks_created of a success is n.
C20_UpsertInOrderedBatches ==
    InUpload =>
        LET upserts == CallsTo("upsert")
            sent    == SentIndexes(upserts, 1)
            n       == Len(loc.vectors)
        IN  /\ \A j \in 1..n : loc.vectors[j].metadata.chunk_index = j - 1
            /\ \A k \in 1..Len(upserts) :
                 Len(upserts[k].batch) >= 1 /\ Len(upserts[k].batch) <= batch_size
            /\ Len(sent) <= n
            /\ sent = [j \in 1..Len(sent) |-> j - 1]
            /\ Len(upserts) <= Batches(n)
            /\ (pc \in {"persist", "returned"} /\ FailedCallsTo("upsert") = << >>
                  /\ CallsTo("embed") # << >>) =>
                 /\ Len(upserts) = Batches(n)
                 /\ Len(sent) = n
            /\ (pc = "returned" /\ result.success) =>
                 /\ result.chunks_created = n
                 /\ Len(upserts) = Batches(n)

\* a document of three entries went out in two calls, of the entries 0, 1 and
\* of the entry 2, and its upload returned success with chunks_created = 3
C20_Witness ==
    /\ InUpload /\ pc = "returned" /\ result.success
    /\ Len(loc.vectors) = 3 /\ result.chunks_created = 3
    /\ Len(CallsTo("upsert")) = 2
    /\ CallsTo("upsert")[1].batch = <<0, 1>>
    /\ CallsTo("upsert")[2].batch = <<2>>

\* ------------------------------------------- claims on the construction

\* the create_index calls of construction number run, in order
CreateCalls(run) ==
    SelectSeq(construction.log, LAMBDA c : c.run = run /\ c.op = "create_index")

\* the list_indexes calls of construction number run
ListCalls(run) ==
    SelectSeq(construction.log, LAMBDA c : c.run = run /\ c.op = "list_indexes")

\* the construction that is running or has run last tried all three
\* configurations and create_index failed for each
AllCreationsFailed ==
    /\ Len(CreateCalls(construction.runs)) = 3
    /\ \A k \in 1..3 : ~CreateCalls(construction.runs)[k].ok

\* index entries of every user, for a search to find if it queried the index
SampleEntries ==
    {BuildVectors(<<q>>, get_embeddings(<<q>>, <<FALSE>>), NameA, user, 0)[1] :
        q \in NonBlankQueries, user \in Users}

\* C18: the construction of the service never raises, and when create_index
\* failed for all three configurations the constructed service has no index:
\* upload_document returns the index-not-available failure at its index
\* check, and search_documents returns the empty list without an embedding or
\* index call, for every query, user and top_k.
C18_ServiceDegradesWhenCreationFails ==
    /\ construction.pc # "raised"
    /\ construction.pc = "done" => construction.service.constructed
    /\ (construction.pc = "done" /\ AllCreationsFailed) =>
         LET service == construction.service
         IN  /\ service.index = None
             /\ IndexCheck(service) # NoResult
             /\ IndexCheck(service).success = FALSE
             /\ IndexCheck(service).message[2] = "Pinecone index not available"
             /\ \A query \in Queries, user \in Users, top_k \in TopKs \cup {DefaultTopK},
                   embedRaises \in BOOLEAN, queryRaises \in BOOLEAN :
                  LET r == search_documents(service, SampleEntries, query, user,
                                            top_k, embedRaises, queryRaises)
                  IN  r.results = << >> /\ r.calls = << >> /\ r.matches = << >>

\* a construction ended after create_index had failed for aws/us-east-1,
\* gcp/us-central1 and aws/us-west-2
C18_Witness ==
    /\ construction.pc = "done"
    /\ AllCreationsFailed
    /\ construction.service = [constructed |-> TRUE, index |-> None]
    /\ ~construction.exists

\* C19: _ensure_index_exists creates the index only if it is absent: a run
\* that finds index_name listed calls create_index not at all; a run that does
\* not tries aws/us-east-1, gcp/us-central1, aws/us-west-2 in this order and
\* makes no call after the first success; and however many times the service
\* is constructed, at most one index is ever created.
C19_EnsureIndexCreatesAtMostOnce ==
    /\ construction.created <= 1
    /\ construction.created =
         Len(SelectSeq(construction.log, LAMBDA c : c.op = "create_index" /\ c.ok))
    /\ \A run \in 1..construction.runs :
         LET creates == CreateCalls(run)
             order   == <<"aws/us-east-1", "gcp/us-central1", "aws/us-west-2">>
             Name(k) == IF creates[k].spec.cloud = "aws"
                        THEN IF creates[k].spec.region = "us-east-1"
                             THEN "aws/us-east-1"
                             ELSE IF creates[k].spec.region = "us-west-2"
                             THEN "aws/us-west-2" ELSE "other"
                        ELSE IF creates[k].spec = [cloud |-> "gcp", region |-> "us-central1"]
                        THEN "gcp/us-central1" ELSE "other"
         IN  /\ (\E k \in 1..Len(ListCalls(run)) : ListCalls(run)[k].listed) =>
                  creates = << >>
             /\ Len(creates) <= 3
             /\ \A k \in 1..Len(creates) :
                  /\ Name(k) = order[k]
                  /\ creates[k].name = index_name
                  /\ creates[k].ok => k = Len(creates)

\* the first construction created the index at the second configuration after
\* the first had failed, and the second construction found it listed and
\* created nothing
C19_Witness ==
    /\ construction.pc = "done" /\ construction.runs = 2
    /\ construction.created = 1
    /\ Len(CreateCalls(1)) = 2
    /\ ~CreateCalls(1)[1].ok /\ CreateCalls(1)[2].ok
    /\ CreateCalls(1)[2].spec.cloud = "gcp"
    /\ ListCalls(2) # << >> /\ ListCalls(2)[1].listed
    /\ CreateCalls(2) = << >>

\* the committed rows of the documents of name filename that user uploaded
RowsOf(user, filename) ==
    {k \in 1..Len(materials) :
        materials[k].uploaded_by = user /\ materials[k].filename = filename}

\* the index entries that hold chunk number chunk_index of a document of name
\* filename that user uploaded
EntriesOf(user, filename, chunk_index) ==
    {e \in pinecone : /\ e.by = user /\ e.metadata.filename = filename
                      /\ e.metadata.chunk_index = chunk_index}

\* C21: ingesting the same document again (same owner, same bytes) collides
\* with no id: the ids of the entries about to be upserted are ids the index
\* does not hold, and for every ingestion that committed its record the index
\* still holds one entry of its own for each of its chunks, so that after two
\* ingestions it holds the entries of both.
C21_SecondIngestionOverwritesNothing ==
    /\ (InUpload /\ pc = "upsert") =>
          \A k \in (loc.i + 1)..Len(loc.vectors) : loc.vectors[k].id \notin IndexedIds
    /\ \A e, f \in pinecone : e.id = f.id => e = f
    /\ \A user \in Users, k \in 1..Len(materials) :
          materials[k].uploaded_by = user =>
            \A chunk_index \in 0..(materials[k].description - 1) :
                Cardinality(EntriesOf(user, materials[k].filename, chunk_index))
                    >= Cardinality(RowsOf(user, materials[k].filename))

\* the second ingestion of a document of several chunks by its owner has
\* returned success, and the index holds each of its chunks twice
C21_Witness ==
    /\ InUpload /\ pc = "returned" /\ result.success
    /\ Len(loc.vectors) >= 2
    /\ Cardinality(RowsOf(req.user, req.file.filename)) = 2
    /\ materials[1].extracted_text = materials[2].extracted_text
    /\ \A k \in 1..Len(loc.vectors) :
          Cardinality(EntriesOf(req.user, req.file.filename, k - 1)) = 2

\* the rows the ingestion in flight has committed
RowsOfThisIngestion == (loc.rows_before + 1)..Len(materials)

\* C23 (as claimed): upload_document returns success=true if and only if
\* exactly one record of that ingestion has been committed, with
\* uploaded_by = owner, processed = true and the first 5000 characters of the
\* extracted text; a failure result implies that no record of that ingestion
\* exists.
C23_SuccessIffOneRecordCommitted ==
    (InUpload /\ pc = "returned") =>
        /\ result.success <=>
              /\ Cardinality(RowsOfThisIngestion) = 1
              /\ \A k \in RowsOfThisIngestion :
                    /\ materials[k].uploaded_by = req.user
                    /\ materials[k].is_processed
                    /\ materials[k].extracted_text
                          = Slice(ExtractedText, 0, StoredTextLen)
        /\ ~result.success => RowsOfThisIngestion = {}

\* C28 (as claimed): when upload_document returns a failure result, the upload
\* operation answers 400 with the failure message as its detail; it answers
\* 500 only when the call of upload_document itself raises.
C28_PipelineFailureAnswered400 ==
    (pc = "responded" /\ req.op = "upload" /\ result # NoResult) =>
        /\ ("success" \in DOMAIN result /\ ~result.success) =>
              resp.status = 400 /\ resp.detail = result.message
        /\ resp.status = 500 => "raised" \in DOMAIN result

\* C30: the index handle of the service is assigned during construction only:
\* once the service is constructed it is never replaced or changed, and while
\* its handle is None every upload_document returns a failure result and every
\* search_documents returns the empty list without a call to the embedding
\* service or the index, whether the index is reachable by then or not.
C30_NoIndexForTheRestOfTheProcess ==
    /\ [](rag_service.constructed /\ rag_service.index = None =>
            /\ (InUpload /\ pc = "returned") =>
                  ~result.success /\ PipelineCalls = << >>
            /\ (pc = "responded" /\ req.op = "search" /\ resp.status = 200) =>
                  resp.results = << >> /\ calls = << >>
            /\ (pc = "responded" /\ req.op = "ask" /\ resp.status = 200) =>
                  resp.sources = << >> /\ calls = << >>)
    /\ [][rag_service.constructed => rag_service' = rag_service]_vars

\* a search is answered with no results by a service without index handle
\* that has failed an upload before
C30_Witness ==
    /\ rag_service.constructed /\ rag_service.index = None
    /\ uploads >= 1
    /\ pc = "responded" /\ req.op = "search" /\ resp.status = 200
    /\ resp.results = << >>

\* the coroutines that have got a service from get_rag_service
ServedTasks == {t \in TaskIds : tasks.at[t].pc = "served"}

\* C22: however the upload, ask, search and list requests in flight
\* interleave, the process constructs RAGService at most once, the global
\* holds that instance from then on, and every request gets that same instance
\* from get_rag_service.
C22_ServiceConstructedAtMostOnce ==
    /\ tasks.constructed <= 1
    /\ tasks.instance = tasks.constructed
    /\ rag_service.constructed <=> tasks.constructed = 1
    /\ \A t \in ServedTasks : tasks.at[t].rag = 1
    /\ \A t, u \in ServedTasks : (tasks.at[t].built /\ tasks.at[u].built) => t = u

\* an upload was suspended in file.read() while the global was None, another
\* request constructed the service meanwhile, and the upload and a third
\* request of another operation then got that same instance
C22_Witness ==
    \E t, u, v \in ServedTasks :
        /\ tasks.at[t].op = "upload" /\ tasks.at[t].before = 0
        /\ ~tasks.at[t].built /\ tasks.at[t].rag = 1
        /\ tasks.at[u].built /\ tasks.at[u].rag = 1
        /\ v \notin {t, u} /\ tasks.at[v].op \notin {"upload", tasks.at[u].op}
        /\ tasks.at[v].rag = 1

\* the ids of the entries a search of user finds in the index entries, with
\* top_k large enough for all of them
SearchableIds(user, entries) ==
    {e.id : e \in {f \in entries : f.metadata.user_id = SearchFilter(user).eq}}

\* the delete operation answers a request for a document that its caller
\* uploaded
DeletesOwnDocument ==
    /\ pc = "idle" /\ pc' = "responded" /\ req'.op = "delete"
    /\ \E k \in 1..Len(materials) :
          /\ materials[k].id = req'.document_id
          /\ materials[k].uploaded_by = req'.user

\* C24 (as claimed): deleting a document its caller owns removes the row of the
\* document, which the list-documents operation no longer shows, and removes
\* none of the index entries, which a search of the owner still finds.
C24_DeleteRemovesRowKeepsEntries ==
    [][DeletesOwnDocument =>
          /\ resp'.status = 200
          /\ \A k \in 1..Len(materials') : materials'[k].id # req'.document_id
          /\ \A k \in 1..Len(get_user_documents(req'.user, materials', FALSE)) :
                get_user_documents(req'.user, materials', FALSE)[k].id
                    # req'.document_id
          /\ pinecone' = pinecone
          /\ SearchableIds(req'.user, pinecone')
                = SearchableIds(req'.user, pinecone)]_vars

\* C29 (as claimed): in the chat-message operation the context and the source
\* file names used to answer a message of user U come only from documents
\* that U uploaded, for any message and any course_id.
C29_ChatContextOnlyFromOwnDocuments ==
    (pc = "responded" /\ req.op = "chat" /\ resp.status = 200) =>
        /\ \A c \in 1..Len(calls) :
              calls[c].op = "generate_content" =>
                \A k \in 1..Len(calls[c].context) :
                    calls[c].context[k].material.uploaded_by = req.user
        /\ Len(resp.sources) = Len(matches)
        /\ \A k \in 1..Len(resp.sources) :
              /\ resp.sources[k] = matches[k].material.original_filename
              /\ matches[k].material.uploaded_by = req.user

\* ------------------------------------------------------- specifications
\* no service constructed, an empty index, an empty table, no request
ServiceIdle ==
    /\ tasks = TasksIdle /\ chats = << >>
    /\ rag_service = NoService /\ pinecone = {} /\ materials = << >>
    /\ uuids = 0 /\ uploads = 0
    /\ pc = "idle" /\ req = NoReq /\ loc = NoLoc /\ calls = << >>
    /\ matches = << >> /\ result = NoResult /\ resp = NoResp

Init ==
    /\ chunker = ChunkerIdle /\ embedder = EmbedderIdle
    /\ construction = ConstructionIdle /\ ServiceIdle

Next ==
    \/ RouteUpload \/ UploadCheckIndex \/ UploadExtract \/ UploadChunk
    \/ UploadEmbed \/ UploadUpsert \/ UploadPersist \/ RouteUploadReturn
    \/ RouteSearch \/ RouteAsk \/ RouteDocuments \/ RouteDelete \/ RequestEnds

Spec == Init /\ [][Next]_vars

InitEmbed ==
    /\ EmbedInit /\ chunker = ChunkerIdle
    /\ construction = ConstructionIdle /\ ServiceIdle

SpecEmbed == InitEmbed /\ [][EmbedNext]_vars

InitChunk ==
    /\ ChunkInit /\ embedder = EmbedderIdle
    /\ construction = ConstructionIdle /\ ServiceIdle

SpecChunk == InitChunk /\ [][ChunkNext]_vars

InitConstruct ==
    /\ ConstructInit /\ chunker = ChunkerIdle /\ embedder = EmbedderIdle
    /\ ServiceIdle

SpecConstruct == InitConstruct /\ [][ConstructNext]_vars

InitRequests ==
    /\ chunker = ChunkerIdle /\ embedder = EmbedderIdle
    /\ construction = ConstructionIdle /\ ServiceIdle

SpecRequests == InitRequests /\ [][TasksNext]_vars

InitChat ==
    /\ ChatInit /\ chunker = ChunkerIdle /\ embedder = EmbedderIdle
    /\ construction = ConstructionIdle /\ tasks = TasksIdle /\ chats = << >>
    /\ rag_service = NoService /\ pinecone = {} /\ uuids = 0 /\ uploads = 0
    /\ pc = "idle" /\ req = NoReq /\ loc = NoLoc /\ calls = << >>
    /\ matches = << >> /\ result = NoResult /\ resp = NoResp

SpecChat == InitChat /\ [][ChatNext]_vars

====
